---- MODULE Spec2Model ----
(***************************************************************************)
(* Model of Tools/optimize_avatar.py: optimize_for_quest().                *)
(*                                                                         *)
(* Strings are sequences.  An object name is the sequence of its Unicode   *)
(* code points.  A path or a command-line argument is a sequence of tokens:*)
(* "/" and "." are tokens of their own, every other token is a run of      *)
(* characters holding neither "/" nor "." (so the os.path functions, which *)
(* only look for "/" and ".", act on tokens as they act on characters).    *)
(* Ratios are in tenths: 5 is 0.5, 2 is 0.2, 10 is 1.0.                    *)
(* The host (bpy) is the environment: each of its calls either succeeds or *)
(* raises, chosen nondeterministically where the host may raise.           *)
(***************************************************************************)
EXTENDS Integers, Sequences, FiniteSets, TLC

\* ------------------------------------------------------------------ bounds
MaxObjs == 2
MaxPathLen == 6

\* --------------------------------------------------- configuration (8-16)
\*   "head", "face", "hand", "finger", "viseme", "outline"
PRESERVE_KEYWORDS ==
  <<
     <<104, 101, 97, 100>>,
     <<102, 97, 99, 101>>,
     <<104, 97, 110, 100>>,
     <<102, 105, 110, 103, 101, 114>>,
     <<118, 105, 115, 101, 109, 101>>,
     <<111, 117, 116, 108, 105, 110, 101>> >>

\*   "shoe", "boot", "belt", "strap", "inner", "prop", "accessory"
AGGRESSIVE_KEYWORDS ==
  <<
     <<115, 104, 111, 101>>,
     <<98, 111, 111, 116>>,
     <<98, 101, 108, 116>>,
     <<115, 116, 114, 97, 112>>,
     <<105, 110, 110, 101, 114>>,
     <<112, 114, 111, 112>>,
     <<97, 99, 99, 101, 115, 115, 111, 114, 121>> >>

RATIO_STANDARD == 5

RATIO_AGGRESSIVE == 2

\* ------------------------------------------------------------ str helpers
\* str.lower() of one code point that lowers to one code point: a code point
\* c with lo <= c <= hi and (c - lo) % step = 0 lowers to c + delta, for the
\* <<lo, hi, step, delta>> below; every other code point lowers to itself
LowerRanges ==
  {
    <<65, 90, 1, 32>>, <<192, 214, 1, 32>>, <<216, 222, 1, 32>>, <<256, 302, 2, 1>>,
    <<306, 310, 2, 1>>, <<313, 327, 2, 1>>, <<330, 374, 2, 1>>, <<376, 376, 1, -121>>,
    <<377, 381, 2, 1>>, <<385, 385, 1, 210>>, <<386, 388, 2, 1>>, <<390, 390, 1, 206>>,
    <<391, 391, 1, 1>>, <<393, 394, 1, 205>>, <<395, 395, 1, 1>>, <<398, 398, 1, 79>>,
    <<399, 399, 1, 202>>, <<400, 400, 1, 203>>, <<401, 401, 1, 1>>, <<403, 403, 1, 205>>,
    <<404, 404, 1, 207>>, <<406, 406, 1, 211>>, <<407, 407, 1, 209>>, <<408, 408, 1, 1>>,
    <<412, 412, 1, 211>>, <<413, 413, 1, 213>>, <<415, 415, 1, 214>>, <<416, 420, 2, 1>>,
    <<422, 422, 1, 218>>, <<423, 423, 1, 1>>, <<425, 425, 1, 218>>, <<428, 428, 1, 1>>,
    <<430, 430, 1, 218>>, <<431, 431, 1, 1>>, <<433, 434, 1, 217>>, <<435, 437, 2, 1>>,
    <<439, 439, 1, 219>>, <<440, 440, 1, 1>>, <<444, 444, 1, 1>>, <<452, 452, 1, 2>>,
    <<453, 453, 1, 1>>, <<455, 455, 1, 2>>, <<456, 456, 1, 1>>, <<458, 458, 1, 2>>,
    <<459, 475, 2, 1>>, <<478, 494, 2, 1>>, <<497, 497, 1, 2>>, <<498, 500, 2, 1>>,
    <<502, 502, 1, -97>>, <<503, 503, 1, -56>>, <<504, 542, 2, 1>>, <<544, 544, 1, -130>>,
    <<546, 562, 2, 1>>, <<570, 570, 1, 10795>>, <<571, 571, 1, 1>>, <<573, 573, 1, -163>>,
    <<574, 574, 1, 10792>>, <<577, 577, 1, 1>>, <<579, 579, 1, -195>>, <<580, 580, 1, 69>>,
    <<581, 581, 1, 71>>, <<582, 590, 2, 1>>, <<880, 882, 2, 1>>, <<886, 886, 1, 1>>,
    <<895, 895, 1, 116>>, <<902, 902, 1, 38>>, <<904, 906, 1, 37>>, <<908, 908, 1, 64>>,
    <<910, 911, 1, 63>>, <<913, 929, 1, 32>>, <<931, 939, 1, 32>>, <<975, 975, 1, 8>>,
    <<984, 1006, 2, 1>>, <<1012, 1012, 1, -60>>, <<1015, 1015, 1, 1>>, <<1017, 1017, 1, -7>>,
    <<1018, 1018, 1, 1>>, <<1021, 1023, 1, -130>>, <<1024, 1039, 1, 80>>, <<1040, 1071, 1, 32>>,
    <<1120, 1152, 2, 1>>, <<1162, 1214, 2, 1>>, <<1216, 1216, 1, 15>>, <<1217, 1229, 2, 1>>,
    <<1232, 1326, 2, 1>>, <<1329, 1366, 1, 48>>, <<4256, 4293, 1, 7264>>, <<4295, 4295, 1, 7264>>,
    <<4301, 4301, 1, 7264>>, <<5024, 5103, 1, 38864>>, <<5104, 5109, 1, 8>>, <<7312, 7354, 1, -3008>>,
    <<7357, 7359, 1, -3008>>, <<7680, 7828, 2, 1>>, <<7838, 7838, 1, -7615>>, <<7840, 7934, 2, 1>>,
    <<7944, 7951, 1, -8>>, <<7960, 7965, 1, -8>>, <<7976, 7983, 1, -8>>, <<7992, 7999, 1, -8>>,
    <<8008, 8013, 1, -8>>, <<8025, 8031, 2, -8>>, <<8040, 8047, 1, -8>>, <<8072, 8079, 1, -8>>,
    <<8088, 8095, 1, -8>>, <<8104, 8111, 1, -8>>, <<8120, 8121, 1, -8>>, <<8122, 8123, 1, -74>>,
    <<8124, 8124, 1, -9>>, <<8136, 8139, 1, -86>>, <<8140, 8140, 1, -9>>, <<8152, 8153, 1, -8>>,
    <<8154, 8155, 1, -100>>, <<8168, 8169, 1, -8>>, <<8170, 8171, 1, -112>>, <<8172, 8172, 1, -7>>,
    <<8184, 8185, 1, -128>>, <<8186, 8187, 1, -126>>, <<8188, 8188, 1, -9>>, <<8486, 8486, 1, -7517>>,
    <<8490, 8490, 1, -8383>>, <<8491, 8491, 1, -8262>>, <<8498, 8498, 1, 28>>, <<8544, 8559, 1, 16>>,
    <<8579, 8579, 1, 1>>, <<9398, 9423, 1, 26>>, <<11264, 11311, 1, 48>>, <<11360, 11360, 1, 1>>,
    <<11362, 11362, 1, -10743>>, <<11363, 11363, 1, -3814>>, <<11364, 11364, 1, -10727>>, <<11367, 11371, 2, 1>>,
    <<11373, 11373, 1, -10780>>, <<11374, 11374, 1, -10749>>, <<11375, 11375, 1, -10783>>, <<11376, 11376, 1, -10782>>,
    <<11378, 11378, 1, 1>>, <<11381, 11381, 1, 1>>, <<11390, 11391, 1, -10815>>, <<11392, 11490, 2, 1>>,
    <<11499, 11501, 2, 1>>, <<11506, 11506, 1, 1>>, <<42560, 42604, 2, 1>>, <<42624, 42650, 2, 1>>,
    <<42786, 42798, 2, 1>>, <<42802, 42862, 2, 1>>, <<42873, 42875, 2, 1>>, <<42877, 42877, 1, -35332>>,
    <<42878, 42886, 2, 1>>, <<42891, 42891, 1, 1>>, <<42893, 42893, 1, -42280>>, <<42896, 42898, 2, 1>>,
    <<42902, 42920, 2, 1>>, <<42922, 42922, 1, -42308>>, <<42923, 42923, 1, -42319>>, <<42924, 42924, 1, -42315>>,
    <<42925, 42925, 1, -42305>>, <<42926, 42926, 1, -42308>>, <<42928, 42928, 1, -42258>>, <<42929, 42929, 1, -42282>>,
    <<42930, 42930, 1, -42261>>, <<42931, 42931, 1, 928>>, <<42932, 42946, 2, 1>>, <<42948, 42948, 1, -48>>,
    <<42949, 42949, 1, -42307>>, <<42950, 42950, 1, -35384>>, <<42951, 42953, 2, 1>>, <<42960, 42960, 1, 1>>,
    <<42966, 42968, 2, 1>>, <<42997, 42997, 1, 1>>, <<65313, 65338, 1, 32>>, <<66560, 66599, 1, 40>>,
    <<66736, 66771, 1, 40>>, <<66928, 66938, 1, 39>>, <<66940, 66954, 1, 39>>, <<66956, 66962, 1, 39>>,
    <<66964, 66965, 1, 39>>, <<68736, 68786, 1, 64>>, <<71840, 71871, 1, 32>>, <<93760, 93791, 1, 32>>,
    <<125184, 125217, 1, 34>> }

\* the code points with the property Cased, as <<lo, hi>>
CasedRanges ==
  {
    <<65, 90>>, <<97, 122>>, <<170, 170>>, <<181, 181>>, <<186, 186>>, <<192, 214>>,
    <<216, 246>>, <<248, 442>>, <<444, 447>>, <<452, 659>>, <<661, 696>>, <<704, 705>>,
    <<736, 740>>, <<837, 837>>, <<880, 883>>, <<886, 887>>, <<890, 893>>, <<895, 895>>,
    <<902, 902>>, <<904, 906>>, <<908, 908>>, <<910, 929>>, <<931, 1013>>, <<1015, 1153>>,
    <<1162, 1327>>, <<1329, 1366>>, <<1376, 1416>>, <<4256, 4293>>, <<4295, 4295>>, <<4301, 4301>>,
    <<4304, 4346>>, <<4349, 4351>>, <<5024, 5109>>, <<5112, 5117>>, <<7296, 7304>>, <<7312, 7354>>,
    <<7357, 7359>>, <<7424, 7615>>, <<7680, 7957>>, <<7960, 7965>>, <<7968, 8005>>, <<8008, 8013>>,
    <<8016, 8023>>, <<8025, 8025>>, <<8027, 8027>>, <<8029, 8029>>, <<8031, 8061>>, <<8064, 8116>>,
    <<8118, 8124>>, <<8126, 8126>>, <<8130, 8132>>, <<8134, 8140>>, <<8144, 8147>>, <<8150, 8155>>,
    <<8160, 8172>>, <<8178, 8180>>, <<8182, 8188>>, <<8305, 8305>>, <<8319, 8319>>, <<8336, 8348>>,
    <<8450, 8450>>, <<8455, 8455>>, <<8458, 8467>>, <<8469, 8469>>, <<8473, 8477>>, <<8484, 8484>>,
    <<8486, 8486>>, <<8488, 8488>>, <<8490, 8493>>, <<8495, 8500>>, <<8505, 8505>>, <<8508, 8511>>,
    <<8517, 8521>>, <<8526, 8526>>, <<8544, 8575>>, <<8579, 8580>>, <<9398, 9449>>, <<11264, 11492>>,
    <<11499, 11502>>, <<11506, 11507>>, <<11520, 11557>>, <<11559, 11559>>, <<11565, 11565>>, <<42560, 42605>>,
    <<42624, 42653>>, <<42786, 42887>>, <<42891, 42894>>, <<42896, 42954>>, <<42960, 42961>>, <<42963, 42963>>,
    <<42965, 42969>>, <<42997, 42998>>, <<43000, 43002>>, <<43824, 43866>>, <<43868, 43880>>, <<43888, 43967>>,
    <<64256, 64262>>, <<64275, 64279>>, <<65313, 65338>>, <<65345, 65370>>, <<66560, 66639>>, <<66736, 66771>>,
    <<66776, 66811>>, <<66928, 66938>>, <<66940, 66954>>, <<66956, 66962>>, <<66964, 66965>>, <<66967, 66977>>,
    <<66979, 66993>>, <<66995, 67001>>, <<67003, 67004>>, <<67456, 67456>>, <<67459, 67461>>, <<67463, 67504>>,
    <<67506, 67514>>, <<68736, 68786>>, <<68800, 68850>>, <<71840, 71903>>, <<93760, 93823>>, <<119808, 119892>>,
    <<119894, 119964>>, <<119966, 119967>>, <<119970, 119970>>, <<119973, 119974>>, <<119977, 119980>>, <<119982, 119993>>,
    <<119995, 119995>>, <<119997, 120003>>, <<120005, 120069>>, <<120071, 120074>>, <<120077, 120084>>, <<120086, 120092>>,
    <<120094, 120121>>, <<120123, 120126>>, <<120128, 120132>>, <<120134, 120134>>, <<120138, 120144>>, <<120146, 120485>>,
    <<120488, 120512>>, <<120514, 120538>>, <<120540, 120570>>, <<120572, 120596>>, <<120598, 120628>>, <<120630, 120654>>,
    <<120656, 120686>>, <<120688, 120712>>, <<120714, 120744>>, <<120746, 120770>>, <<120772, 120779>>, <<122624, 122633>>,
    <<122635, 122654>>, <<125184, 125251>>, <<127280, 127305>>, <<127312, 127337>>, <<127344, 127369>> }

\* the code points with the property Case_Ignorable, as <<lo, hi>>
CaseIgnorableRanges ==
  {
    <<39, 39>>, <<46, 46>>, <<58, 58>>, <<94, 94>>, <<96, 96>>, <<168, 168>>,
    <<173, 173>>, <<175, 175>>, <<180, 180>>, <<183, 184>>, <<688, 879>>, <<884, 885>>,
    <<890, 890>>, <<900, 901>>, <<903, 903>>, <<1155, 1161>>, <<1369, 1369>>, <<1375, 1375>>,
    <<1425, 1469>>, <<1471, 1471>>, <<1473, 1474>>, <<1476, 1477>>, <<1479, 1479>>, <<1524, 1524>>,
    <<1536, 1541>>, <<1552, 1562>>, <<1564, 1564>>, <<1600, 1600>>, <<1611, 1631>>, <<1648, 1648>>,
    <<1750, 1757>>, <<1759, 1768>>, <<1770, 1773>>, <<1807, 1807>>, <<1809, 1809>>, <<1840, 1866>>,
    <<1958, 1968>>, <<2027, 2037>>, <<2042, 2042>>, <<2045, 2045>>, <<2070, 2093>>, <<2137, 2139>>,
    <<2184, 2184>>, <<2192, 2193>>, <<2200, 2207>>, <<2249, 2306>>, <<2362, 2362>>, <<2364, 2364>>,
    <<2369, 2376>>, <<2381, 2381>>, <<2385, 2391>>, <<2402, 2403>>, <<2417, 2417>>, <<2433, 2433>>,
    <<2492, 2492>>, <<2497, 2500>>, <<2509, 2509>>, <<2530, 2531>>, <<2558, 2558>>, <<2561, 2562>>,
    <<2620, 2620>>, <<2625, 2626>>, <<2631, 2632>>, <<2635, 2637>>, <<2641, 2641>>, <<2672, 2673>>,
    <<2677, 2677>>, <<2689, 2690>>, <<2748, 2748>>, <<2753, 2757>>, <<2759, 2760>>, <<2765, 2765>>,
    <<2786, 2787>>, <<2810, 2815>>, <<2817, 2817>>, <<2876, 2876>>, <<2879, 2879>>, <<2881, 2884>>,
    <<2893, 2893>>, <<2901, 2902>>, <<2914, 2915>>, <<2946, 2946>>, <<3008, 3008>>, <<3021, 3021>>,
    <<3072, 3072>>, <<3076, 3076>>, <<3132, 3132>>, <<3134, 3136>>, <<3142, 3144>>, <<3146, 3149>>,
    <<3157, 3158>>, <<3170, 3171>>, <<3201, 3201>>, <<3260, 3260>>, <<3263, 3263>>, <<3270, 3270>>,
    <<3276, 3277>>, <<3298, 3299>>, <<3328, 3329>>, <<3387, 3388>>, <<3393, 3396>>, <<3405, 3405>>,
    <<3426, 3427>>, <<3457, 3457>>, <<3530, 3530>>, <<3538, 3540>>, <<3542, 3542>>, <<3633, 3633>>,
    <<3636, 3642>>, <<3654, 3662>>, <<3761, 3761>>, <<3764, 3772>>, <<3782, 3782>>, <<3784, 3789>>,
    <<3864, 3865>>, <<3893, 3893>>, <<3895, 3895>>, <<3897, 3897>>, <<3953, 3966>>, <<3968, 3972>>,
    <<3974, 3975>>, <<3981, 3991>>, <<3993, 4028>>, <<4038, 4038>>, <<4141, 4144>>, <<4146, 4151>>,
    <<4153, 4154>>, <<4157, 4158>>, <<4184, 4185>>, <<4190, 4192>>, <<4209, 4212>>, <<4226, 4226>>,
    <<4229, 4230>>, <<4237, 4237>>, <<4253, 4253>>, <<4348, 4348>>, <<4957, 4959>>, <<5906, 5908>>,
    <<5938, 5939>>, <<5970, 5971>>, <<6002, 6003>>, <<6068, 6069>>, <<6071, 6077>>, <<6086, 6086>>,
    <<6089, 6099>>, <<6103, 6103>>, <<6109, 6109>>, <<6155, 6159>>, <<6211, 6211>>, <<6277, 6278>>,
    <<6313, 6313>>, <<6432, 6434>>, <<6439, 6440>>, <<6450, 6450>>, <<6457, 6459>>, <<6679, 6680>>,
    <<6683, 6683>>, <<6742, 6742>>, <<6744, 6750>>, <<6752, 6752>>, <<6754, 6754>>, <<6757, 6764>>,
    <<6771, 6780>>, <<6783, 6783>>, <<6823, 6823>>, <<6832, 6862>>, <<6912, 6915>>, <<6964, 6964>>,
    <<6966, 6970>>, <<6972, 6972>>, <<6978, 6978>>, <<7019, 7027>>, <<7040, 7041>>, <<7074, 7077>>,
    <<7080, 7081>>, <<7083, 7085>>, <<7142, 7142>>, <<7144, 7145>>, <<7149, 7149>>, <<7151, 7153>>,
    <<7212, 7219>>, <<7222, 7223>>, <<7288, 7293>>, <<7376, 7378>>, <<7380, 7392>>, <<7394, 7400>>,
    <<7405, 7405>>, <<7412, 7412>>, <<7416, 7417>>, <<7468, 7530>>, <<7544, 7544>>, <<7579, 7679>>,
    <<8125, 8125>>, <<8127, 8129>>, <<8141, 8143>>, <<8157, 8159>>, <<8173, 8175>>, <<8189, 8190>>,
    <<8203, 8207>>, <<8216, 8217>>, <<8228, 8228>>, <<8231, 8231>>, <<8234, 8238>>, <<8288, 8292>>,
    <<8294, 8303>>, <<8305, 8305>>, <<8319, 8319>>, <<8336, 8348>>, <<8400, 8432>>, <<11388, 11389>>,
    <<11503, 11505>>, <<11631, 11631>>, <<11647, 11647>>, <<11744, 11775>>, <<11823, 11823>>, <<12293, 12293>>,
    <<12330, 12333>>, <<12337, 12341>>, <<12347, 12347>>, <<12441, 12446>>, <<12540, 12542>>, <<40981, 40981>>,
    <<42232, 42237>>, <<42508, 42508>>, <<42607, 42610>>, <<42612, 42621>>, <<42623, 42623>>, <<42652, 42655>>,
    <<42736, 42737>>, <<42752, 42785>>, <<42864, 42864>>, <<42888, 42890>>, <<42994, 42996>>, <<43000, 43001>>,
    <<43010, 43010>>, <<43014, 43014>>, <<43019, 43019>>, <<43045, 43046>>, <<43052, 43052>>, <<43204, 43205>>,
    <<43232, 43249>>, <<43263, 43263>>, <<43302, 43309>>, <<43335, 43345>>, <<43392, 43394>>, <<43443, 43443>>,
    <<43446, 43449>>, <<43452, 43453>>, <<43471, 43471>>, <<43493, 43494>>, <<43561, 43566>>, <<43569, 43570>>,
    <<43573, 43574>>, <<43587, 43587>>, <<43596, 43596>>, <<43632, 43632>>, <<43644, 43644>>, <<43696, 43696>>,
    <<43698, 43700>>, <<43703, 43704>>, <<43710, 43711>>, <<43713, 43713>>, <<43741, 43741>>, <<43756, 43757>>,
    <<43763, 43764>>, <<43766, 43766>>, <<43867, 43871>>, <<43881, 43883>>, <<44005, 44005>>, <<44008, 44008>>,
    <<44013, 44013>>, <<64286, 64286>>, <<64434, 64450>>, <<65024, 65039>>, <<65043, 65043>>, <<65056, 65071>>,
    <<65106, 65106>>, <<65109, 65109>>, <<65279, 65279>>, <<65287, 65287>>, <<65294, 65294>>, <<65306, 65306>>,
    <<65342, 65342>>, <<65344, 65344>>, <<65392, 65392>>, <<65438, 65439>>, <<65507, 65507>>, <<65529, 65531>>,
    <<66045, 66045>>, <<66272, 66272>>, <<66422, 66426>>, <<67456, 67461>>, <<67463, 67504>>, <<67506, 67514>>,
    <<68097, 68099>>, <<68101, 68102>>, <<68108, 68111>>, <<68152, 68154>>, <<68159, 68159>>, <<68325, 68326>>,
    <<68900, 68903>>, <<69291, 69292>>, <<69446, 69456>>, <<69506, 69509>>, <<69633, 69633>>, <<69688, 69702>>,
    <<69744, 69744>>, <<69747, 69748>>, <<69759, 69761>>, <<69811, 69814>>, <<69817, 69818>>, <<69821, 69821>>,
    <<69826, 69826>>, <<69837, 69837>>, <<69888, 69890>>, <<69927, 69931>>, <<69933, 69940>>, <<70003, 70003>>,
    <<70016, 70017>>, <<70070, 70078>>, <<70089, 70092>>, <<70095, 70095>>, <<70191, 70193>>, <<70196, 70196>>,
    <<70198, 70199>>, <<70206, 70206>>, <<70367, 70367>>, <<70371, 70378>>, <<70400, 70401>>, <<70459, 70460>>,
    <<70464, 70464>>, <<70502, 70508>>, <<70512, 70516>>, <<70712, 70719>>, <<70722, 70724>>, <<70726, 70726>>,
    <<70750, 70750>>, <<70835, 70840>>, <<70842, 70842>>, <<70847, 70848>>, <<70850, 70851>>, <<71090, 71093>>,
    <<71100, 71101>>, <<71103, 71104>>, <<71132, 71133>>, <<71219, 71226>>, <<71229, 71229>>, <<71231, 71232>>,
    <<71339, 71339>>, <<71341, 71341>>, <<71344, 71349>>, <<71351, 71351>>, <<71453, 71455>>, <<71458, 71461>>,
    <<71463, 71467>>, <<71727, 71735>>, <<71737, 71738>>, <<71995, 71996>>, <<71998, 71998>>, <<72003, 72003>>,
    <<72148, 72151>>, <<72154, 72155>>, <<72160, 72160>>, <<72193, 72202>>, <<72243, 72248>>, <<72251, 72254>>,
    <<72263, 72263>>, <<72273, 72278>>, <<72281, 72283>>, <<72330, 72342>>, <<72344, 72345>>, <<72752, 72758>>,
    <<72760, 72765>>, <<72767, 72767>>, <<72850, 72871>>, <<72874, 72880>>, <<72882, 72883>>, <<72885, 72886>>,
    <<73009, 73014>>, <<73018, 73018>>, <<73020, 73021>>, <<73023, 73029>>, <<73031, 73031>>, <<73104, 73105>>,
    <<73109, 73109>>, <<73111, 73111>>, <<73459, 73460>>, <<78896, 78904>>, <<92912, 92916>>, <<92976, 92982>>,
    <<92992, 92995>>, <<94031, 94031>>, <<94095, 94111>>, <<94176, 94177>>, <<94179, 94180>>, <<110576, 110579>>,
    <<110581, 110587>>, <<110589, 110590>>, <<113821, 113822>>, <<113824, 113827>>, <<118528, 118573>>, <<118576, 118598>>,
    <<119143, 119145>>, <<119155, 119170>>, <<119173, 119179>>, <<119210, 119213>>, <<119362, 119364>>, <<121344, 121398>>,
    <<121403, 121452>>, <<121461, 121461>>, <<121476, 121476>>, <<121499, 121503>>, <<121505, 121519>>, <<122880, 122886>>,
    <<122888, 122904>>, <<122907, 122913>>, <<122915, 122916>>, <<122918, 122922>>, <<123184, 123197>>, <<123566, 123566>>,
    <<123628, 123631>>, <<125136, 125142>>, <<125252, 125259>>, <<127995, 127999>>, <<917505, 917505>>, <<917536, 917631>>,
    <<917760, 917999>> }

IsCased(c) == \E r \in CasedRanges : r[1] <= c /\ c <= r[2]

IsCaseIgnorable(c) == \E r \in CaseIgnorableRanges : r[1] <= c /\ c <= r[2]

InLowerRange(c, r) == r[1] <= c /\ c <= r[2] /\ (c - r[1]) % r[3] = 0

\* str.lower() on one code point, for those that lower to one code point
LowerChar(c) ==
  IF c < 128 THEN (IF 65 <= c /\ c <= 90 THEN c + 32 ELSE c)
  ELSE IF \E r \in LowerRanges : InLowerRange(c, r)
  THEN c + (CHOOSE r \in LowerRanges : InLowerRange(c, r))[4]
  ELSE c

\* the nearest position at or before k holding no case-ignorable code point,
\* 0 when there is none
RECURSIVE PrevNotIgnorable(_, _)
PrevNotIgnorable(s, k) ==
  IF k < 1 THEN 0
  ELSE IF IsCaseIgnorable(s[k]) THEN PrevNotIgnorable(s, k - 1) ELSE k

\* the nearest position at or after k holding no case-ignorable code point,
\* Len(s) + 1 when there is none
RECURSIVE NextNotIgnorable(_, _)
NextNotIgnorable(s, k) ==
  IF k > Len(s) THEN Len(s) + 1
  ELSE IF IsCaseIgnorable(s[k]) THEN NextNotIgnorable(s, k + 1) ELSE k

\* the capital sigma at position k ends a word: a cased code point before it
\* and none after it, case-ignorable code points skipped
FinalSigma(s, k) ==
  LET j == PrevNotIgnorable(s, k - 1)
      n == NextNotIgnorable(s, k + 1)
  IN /\ j >= 1
     /\ IsCased(s[j])
     /\ (n > Len(s) \/ ~IsCased(s[n]))

\* what str.lower() puts for the code point at position k of s
LowerAt(s, k) ==
  IF s[k] = 931 THEN (IF FinalSigma(s, k) THEN <<962>> ELSE <<963>>)
  ELSE IF s[k] = 304 THEN <<105, 775>>
  ELSE <<LowerChar(s[k])>>

RECURSIVE LowerFrom(_, _)
LowerFrom(s, k) == IF k > Len(s) THEN <<>> ELSE LowerAt(s, k) \o LowerFrom(s, k + 1)

\* str.lower()
Lower(s) == LowerFrom(s, 1)

\* word in s  (substring test)
Contains(word, s) ==
  \E k \in 0..(Len(s) - Len(word)) : SubSeq(s, k + 1, k + Len(word)) = word

\* any(word in obj_name for word in keywords)
AnyKeyword(keywords, obj_name) ==
  \E k \in 1..Len(keywords) : Contains(keywords[k], obj_name)

\* ------------------------------------------------------------ os.path
\* p.rfind(c), 0-based, -1 when absent
RFind(p, c) ==
  IF \E k \in 1..Len(p) : p[k] = c
  THEN (CHOOSE k \in 1..Len(p) : p[k] = c /\ \A j \in (k + 1)..Len(p) : p[j] # c) - 1
  ELSE -1

AllSlashes(p) == \A k \in 1..Len(p) : p[k] = "/"

RECURSIVE RStripSlash(_)
RStripSlash(p) ==
  IF Len(p) > 0 /\ p[Len(p)] = "/" THEN RStripSlash(SubSeq(p, 1, Len(p) - 1)) ELSE p

\* posixpath.dirname
DirName(p) ==
  LET i == RFind(p, "/") + 1
      head == SubSeq(p, 1, i)
  IN IF Len(head) > 0 /\ ~AllSlashes(head) THEN RStripSlash(head) ELSE head

\* posixpath.basename
BaseName(p) == SubSeq(p, RFind(p, "/") + 2, Len(p))

\* posixpath.splitext(p)[0]
SplitExtRoot(p) ==
  LET sepIndex == RFind(p, "/")
      dotIndex == RFind(p, ".")
  IN IF dotIndex > sepIndex
        /\ \E f \in (sepIndex + 1)..(dotIndex - 1) : p[f + 1] # "."
     THEN SubSeq(p, 1, dotIndex)
     ELSE p

\* posixpath.join(a, b)
PathJoin(a, b) ==
  IF Len(b) > 0 /\ b[1] = "/" THEN b
  ELSE IF Len(a) = 0 \/ a[Len(a)] = "/" THEN a \o b
  ELSE a \o <<"/">> \o b

\* the fixed suffix appended to the base name (line 84)
QuestSuffix == <<"_QUEST_SMART", ".", "fbx">>

OutputPathNoSuffix(p) == PathJoin(DirName(p), SplitExtRoot(BaseName(p)) \o <<".", "fbx">>)

\* lines 82-84
OutputPath(p) == PathJoin(DirName(p), SplitExtRoot(BaseName(p)) \o QuestSuffix)

\* ------------------------------------------------------------ arguments
Sep == <<"--">>

\* sys.argv.index("--"), 0-based, -1 standing for ValueError
ArgvIndexSep(a) ==
  IF \E k \in 1..Len(a) : a[k] = Sep
  THEN (CHOOSE k \in 1..Len(a) : a[k] = Sep /\ \A j \in 1..(k - 1) : a[j] # Sep) - 1
  ELSE -1

ArgsStartNoPlusOne(a) == ArgvIndexSep(a)

\* args_start (line 22), when index() did not raise
ArgsStart(a) == ArgvIndexSep(a) + 1

\* lines 21-24 raise ValueError or IndexError
ParseFails(a) == ArgvIndexSep(a) = -1 \/ ArgsStart(a) >= Len(a)

\* ------------------------------------------------------------ classifier
None == -1

\* obj.data.shape_keys and len(obj.data.shape_keys.key_blocks) > 0
HasShapeKeys(o) == o.shape_keys # None /\ o.shape_keys > 0

IsMeshAlways(o) == TRUE

\* not (obj.type != "MESH")   (line 35)
IsMesh(o) == o.type = "MESH"

ClassifyKeywordsFirst(o) ==
  LET obj_name == Lower(o.name)
  IN IF AnyKeyword(PRESERVE_KEYWORDS, obj_name) THEN "PROTECT"
     ELSE IF AnyKeyword(AGGRESSIVE_KEYWORDS, obj_name) THEN "AGGRESSIVE"
     ELSE IF HasShapeKeys(o) THEN "SKIP"
     ELSE "STANDARD"

ClassifyAggressiveFirst(o) ==
  LET obj_name == Lower(o.name)
  IN IF HasShapeKeys(o) THEN "SKIP"
     ELSE IF AnyKeyword(AGGRESSIVE_KEYWORDS, obj_name) THEN "AGGRESSIVE"
     ELSE IF AnyKeyword(PRESERVE_KEYWORDS, obj_name) THEN "PROTECT"
     ELSE "STANDARD"

\* lines 38-59: the message printed for a mesh object names its outcome
Classify(o) ==
  LET obj_name == Lower(o.name)
  IN IF HasShapeKeys(o) THEN "SKIP"
     ELSE IF AnyKeyword(PRESERVE_KEYWORDS, obj_name) THEN "PROTECT"
     ELSE IF AnyKeyword(AGGRESSIVE_KEYWORDS, obj_name) THEN "AGGRESSIVE"
     ELSE "STANDARD"

TargetRatioSwapped(o) ==
  IF AnyKeyword(AGGRESSIVE_KEYWORDS, Lower(o.name)) THEN RATIO_STANDARD ELSE RATIO_AGGRESSIVE

\* lines 54-57
TargetRatio(o) ==
  IF AnyKeyword(AGGRESSIVE_KEYWORDS, Lower(o.name)) THEN RATIO_AGGRESSIVE ELSE RATIO_STANDARD

Reduces(d) == d \in {"AGGRESSIVE", "STANDARD"}

\* ------------------------------------------------------------ inputs
ObjTypes == {"MESH", "ARMATURE"}

\* "Head_Strap"
NameHeadStrap == <<72, 101, 97, 100, 95, 83, 116, 114, 97, 112>>

\* "Boots"
NameBoots == <<66, 111, 111, 116, 115>>

\* "Body"
NameBody == <<66, 111, 100, 121>>

\* "VISEME"
NameVISEME == <<86, 73, 83, 69, 77, 69>>

\* "BELT"
NameBELT == <<66, 69, 76, 84>>

\* "INNER with U+0130 (capital I with dot above) for its first letter"
NameINNER == <<304, 78, 78, 69, 82>>

ObjNames == {NameHeadStrap, NameBoots, NameBody, NameVISEME, NameBELT, NameINNER}

\* shape_keys: None, a key with no key block, a key with one key block
ShapeKeyStates == {None, 0, 1}

FileObjects == [type : ObjTypes, name : ObjNames, shape_keys : ShapeKeyStates]

\* the host keeps object names unique
ScenesOfLen(n) ==
  { s \in [1..n -> FileObjects] : \A j, k \in 1..n : j # k => s[j].name # s[k].name }

Scenes == UNION { ScenesOfLen(n) : n \in 0..MaxObjs }

NotImportable == [valid |-> FALSE, objs |-> <<>>]

Files == {NotImportable} \cup { [valid |-> TRUE, objs |-> s] : s \in Scenes }

ExamplePath == <<"/", "scenes", "/", "avatar", ".", "fbx">>

ArgvExamples ==
  { <<<<"blender">>>>,
    <<<<"blender">>, Sep>>,
    <<<<"blender">>, <<"-b">>, Sep, ExamplePath>> }

PathTokens == {"/", ".", "scenes", "avatar", "fbx", "obj"}

Paths == UNION { [1..n -> PathTokens] : n \in 1..MaxPathLen }

ArgvPaths ==
  { <<<<"blender">>>>, <<<<"blender">>, Sep>>, <<<<"blender">>, Sep, Sep>> }
    \cup { <<<<"blender">>, Sep, p>> : p \in Paths }

ExampleFiles ==
  { NotImportable,
    [valid |-> TRUE,
     objs |-> << [type |-> "MESH", name |-> NameBoots, shape_keys |-> None] >>] }

\* ------------------------------------------------------------ state
VARIABLES
  argv,         \* sys.argv
  file,         \* what the file named on the command line holds
  pc,           \* position in optimize_for_quest
  input_path,   \* line 23
  objects,      \* bpy.data.objects
  i,            \* position of the for loop of line 34 (1-based)
  target_ratio, \* line 54/57
  active,       \* bpy.context.view_layer.objects.active (0: none)
  output_path,  \* line 84
  log,          \* lines printed, in order
  calls         \* requests made to the host, in order

vars == <<argv, file, pc, input_path, objects, i, target_ratio, active, output_path, log, calls>>

Msg(kind, arg) == [kind |-> kind, arg |-> arg]

Call(op, obj, ok) == [op |-> op, obj |-> obj, ok |-> ok]

\* a DECIMATE modifier as modifiers.new() returns it (host defaults)
NewModifier ==
  [name |-> "SmartDecimate", type |-> "DECIMATE", ratio |-> 10,
   use_collapse_triangulate |-> FALSE, use_symmetry |-> TRUE, delimit |-> {"NORMAL"}]

\* an imported object: no modifier yet, nothing baked by this run
Imported(o) ==
  [type |-> o.type, name |-> o.name, shape_keys |-> o.shape_keys,
   modifiers |-> <<>>, baked |-> <<>>]

InitCommon ==
  /\ pc = "start"
  /\ input_path = <<>>
  /\ objects = <<>>
  /\ i = 0
  /\ target_ratio = 0
  /\ active = 0
  /\ output_path = <<>>
  /\ log = <<>>
  /\ calls = <<>>

Init ==
  /\ argv \in ArgvExamples
  /\ file \in Files
  /\ InitCommon

InitPaths ==
  /\ argv \in ArgvPaths
  /\ file \in ExampleFiles
  /\ InitCommon

\* lines 21-26
ParseArgs ==
  /\ pc = "start"
  /\ IF ParseFails(argv)
     THEN /\ log' = Append(log, Msg("ERROR_NO_INPUT", <<>>))
          /\ pc' = "returned"
          /\ UNCHANGED input_path
     ELSE /\ input_path' = argv[ArgsStart(argv) + 1]
          /\ pc' = "setup"
          /\ UNCHANGED log
  /\ UNCHANGED <<argv, file, objects, i, target_ratio, active, output_path, calls>>

\* lines 29-30
Setup ==
  /\ pc = "setup"
  /\ calls' = Append(calls, Call("read_factory_settings", 0, TRUE))
  /\ log' = Append(log, Msg("PROCESSING", input_path))
  /\ objects' = <<>>
  /\ active' = 0
  /\ pc' = "import"
  /\ UNCHANGED <<argv, file, input_path, i, target_ratio, output_path>>

ImportFailureReturns == "returned"

\* line 31 is outside any try: a failure of the importer leaves the function
ImportFailurePc == "raised"

\* line 31, then the for statement of line 34 starts
ImportScene ==
  /\ pc = "import"
  /\ calls' = Append(calls, Call("import_scene.fbx", 0, file.valid))
  /\ IF file.valid
     THEN /\ objects' = [k \in 1..Len(file.objs) |-> Imported(file.objs[k])]
          /\ i' = 1
          /\ pc' = "loop"
     ELSE /\ pc' = ImportFailurePc
          /\ UNCHANGED <<objects, i>>
  /\ UNCHANGED <<argv, file, input_path, target_ratio, active, output_path, log>>

\* lines 34-59: one iteration of the loop up to the try statement,
\* or the end of the loop
VisitObject ==
  /\ pc = "loop"
  /\ IF i > Len(objects)
     THEN /\ pc' = "export"
          /\ UNCHANGED <<i, target_ratio, log>>
     ELSE LET obj == objects[i]
              d == Classify(obj)
          IN IF ~IsMesh(obj)
             THEN /\ i' = i + 1
                  /\ UNCHANGED <<pc, target_ratio, log>>
             ELSE /\ log' = Append(log, Msg(d, obj.name))
                  /\ IF Reduces(d)
                     THEN /\ target_ratio' = TargetRatio(obj)
                          /\ pc' = "set_active"
                          /\ UNCHANGED i
                     ELSE /\ i' = i + 1
                          /\ UNCHANGED <<pc, target_ratio>>
  /\ UNCHANGED <<argv, file, input_path, objects, active, output_path, calls>>

HandlerAborts == "raised"

\* after the except clause of lines 78-79 the loop goes on
HandlerPc == "loop"

HandlerRetries(k) == k

\* the next iteration takes the next object
HandlerNext(k) == k + 1

\* lines 78-79, reached from a raising call of the try block
Handle ==
  /\ log' = Append(log, Msg("ERROR", objects[i].name))
  /\ i' = HandlerNext(i)
  /\ pc' = HandlerPc

\* line 63
SetActive ==
  /\ pc = "set_active"
  /\ \E ok \in BOOLEAN :
       /\ calls' = Append(calls, Call("set_active", i, ok))
       /\ IF ok
          THEN /\ active' = i
               /\ pc' = "attach"
               /\ UNCHANGED <<i, log>>
          ELSE /\ Handle
               /\ UNCHANGED active
  /\ UNCHANGED <<argv, file, input_path, objects, target_ratio, output_path>>

\* line 66
AttachModifier ==
  /\ pc = "attach"
  /\ \E ok \in BOOLEAN :
       /\ calls' = Append(calls, Call("modifiers.new", i, ok))
       /\ IF ok
          THEN /\ objects' = [objects EXCEPT ![i].modifiers = Append(@, NewModifier)]
               /\ pc' = "configure"
               /\ UNCHANGED <<i, log>>
          ELSE /\ Handle
               /\ UNCHANGED objects
  /\ UNCHANGED <<argv, file, input_path, target_ratio, active, output_path>>

ConfiguredRatioOnly(mod, ratio) == [mod EXCEPT !.ratio = ratio]

\* the assignments of lines 67-73
Configured(mod, ratio) ==
  [mod EXCEPT !.ratio = ratio, !.use_collapse_triangulate = TRUE,
              !.use_symmetry = FALSE, !.delimit = {"UV", "MATERIAL"}]

\* lines 67-73: mod is the modifier just appended to obj.modifiers
ConfigureModifier ==
  /\ pc = "configure"
  /\ objects' = [objects EXCEPT ![i].modifiers[Len(objects[i].modifiers)] =
                                   Configured(@, target_ratio)]
  /\ pc' = "apply"
  /\ UNCHANGED <<argv, file, input_path, i, target_ratio, active, output_path, log, calls>>

\* the modifiers of o left once the first one named n is taken out
RemoveModifier(mods, n) ==
  LET k == CHOOSE j \in 1..Len(mods) : mods[j].name = n /\ \A h \in 1..(j - 1) : mods[h].name # n
  IN SubSeq(mods, 1, k - 1) \o SubSeq(mods, k + 1, Len(mods))

ModifierNamed(mods, n) ==
  mods[CHOOSE j \in 1..Len(mods) : mods[j].name = n /\ \A h \in 1..(j - 1) : mods[h].name # n]

\* line 76: the host bakes the modifier named SmartDecimate of the active
\* object into its mesh and takes it off the stack, or raises and leaves
\* the object as it is
ApplyModifier ==
  /\ pc = "apply"
  /\ \E ok \in BOOLEAN :
       /\ calls' = Append(calls, Call("modifier_apply", active, ok))
       /\ IF ok
          THEN /\ objects' = [objects EXCEPT
                    ![active].baked = Append(@, ModifierNamed(objects[active].modifiers, "SmartDecimate")),
                    ![active].modifiers = RemoveModifier(@, "SmartDecimate")]
               /\ i' = i + 1
               /\ pc' = "loop"
               /\ UNCHANGED log
          ELSE /\ Handle
               /\ UNCHANGED objects
  /\ UNCHANGED <<argv, file, input_path, target_ratio, active, output_path>>

\* lines 82-94: the exporter is outside any try as well
ExportScene ==
  /\ pc = "export"
  /\ output_path' = OutputPath(input_path)
  /\ \E ok \in BOOLEAN :
       /\ calls' = Append(calls, Call("export_scene.fbx", 0, ok))
       /\ IF ok
          THEN /\ log' = Append(log, Msg("COMPLETE", OutputPath(input_path)))
               /\ pc' = "done"
          ELSE /\ pc' = "raised"
               /\ UNCHANGED log
  /\ UNCHANGED <<argv, file, input_path, objects, i, target_ratio, active>>

Next ==
  \/ ParseArgs
  \/ Setup
  \/ ImportScene
  \/ VisitObject
  \/ SetActive
  \/ AttachModifier
  \/ ConfigureModifier
  \/ ApplyModifier
  \/ ExportScene

Spec == Init /\ [][Next]_vars

SpecPaths == InitPaths /\ [][Next]_vars

TypeOK ==
  /\ pc \in {"start", "returned", "setup", "import", "raised", "loop", "set_active",
             "attach", "configure", "apply", "export", "done"}
  /\ i \in 0..(Len(objects) + 1)
  /\ active \in 0..Len(objects)
  /\ target_ratio \in {0, RATIO_STANDARD, RATIO_AGGRESSIVE}

\* ------------------------------------------------------------ vocabulary of the properties
ObjectKinds == {"SKIP", "PROTECT", "AGGRESSIVE", "STANDARD", "ERROR"}

ClassKinds == {"SKIP", "PROTECT", "AGGRESSIVE", "STANDARD"}

\* positions of the log holding a message of one of the kinds about the name
LogAbout(kinds, name) == { n \in 1..Len(log) : log[n].kind \in kinds /\ log[n].arg = name }

\* positions of the host requests of the given operation on object k
CallsOn(ops, k) == { n \in 1..Len(calls) : calls[n].op \in ops /\ calls[n].obj = k }

ObjectOps == {"set_active", "modifiers.new", "modifier_apply"}

Animated(o) == o.shape_keys >= 1

\* the names whose lower-cased form holds a Preserve keyword
PreservedNames ==
  { name \in ObjNames :
      \E w \in {PRESERVE_KEYWORDS[n] : n \in 1..Len(PRESERVE_KEYWORDS)} : Contains(w, Lower(name)) }

\* the names whose lower-cased form holds an Aggressive keyword
CrushedNames ==
  { name \in ObjNames :
      \E w \in {AGGRESSIVE_KEYWORDS[n] : n \in 1..Len(AGGRESSIVE_KEYWORDS)} : Contains(w, Lower(name)) }

Preserved(o) == o.name \in PreservedNames

Crushed(o) == o.name \in CrushedNames

Untouched(k) ==
  /\ objects[k].modifiers = <<>>
  /\ objects[k].baked = <<>>
  /\ CallsOn(ObjectOps, k) = {}
  /\ active # k

\* the loop is past the classification of object k
Classified(k) == k < i \/ (k = i /\ pc \in {"set_active", "attach", "configure", "apply"})

\* C1: a mesh object with at least one shape key, whatever its name, gets the
\* SKIP message and no other, carries no modifier, is never the subject of a
\* host request and is never the active object.
C1_AnimatedSkipped ==
  \A k \in 1..Len(objects) :
    (objects[k].type = "MESH" /\ Animated(objects[k])) =>
      /\ Untouched(k)
      /\ LogAbout(ObjectKinds \ {"SKIP"}, objects[k].name) = {}
      /\ Classified(k) => Cardinality(LogAbout({"SKIP"}, objects[k].name)) = 1

C1_Witness ==
  /\ pc = "done"
  /\ \E j, k \in 1..Len(objects) :
       /\ objects[k].type = "MESH" /\ Animated(objects[k]) /\ Crushed(objects[k])
       /\ LogAbout({"SKIP"}, objects[k].name) # {}
       /\ objects[j].baked # <<>>

\* C2: a mesh object without shape keys whose lower-cased name holds a
\* Preserve keyword gets the PROTECT message and no other and is left
\* untouched, also when the name holds an Aggressive keyword too.
C2_PreservedProtected ==
  \A k \in 1..Len(objects) :
    (objects[k].type = "MESH" /\ ~Animated(objects[k]) /\ Preserved(objects[k])) =>
      /\ Untouched(k)
      /\ LogAbout(ObjectKinds \ {"PROTECT"}, objects[k].name) = {}
      /\ Classified(k) => Cardinality(LogAbout({"PROTECT"}, objects[k].name)) = 1

C2_Witness ==
  /\ pc = "done"
  /\ \E k \in 1..Len(objects) :
       /\ objects[k].type = "MESH" /\ ~Animated(objects[k])
       /\ objects[k].name = NameHeadStrap
       /\ Preserved(objects[k]) /\ Crushed(objects[k])
       /\ LogAbout({"PROTECT"}, objects[k].name) # {}

ExpectedRatio(o) == IF Crushed(o) THEN 2 ELSE 5

ExpectedKind(o) == IF Crushed(o) THEN "AGGRESSIVE" ELSE "STANDARD"

\* C3: a mesh object without shape keys and without a Preserve keyword is
\* announced AGGRESSIVE exactly when its lower-cased name holds an Aggressive
\* keyword and STANDARD otherwise, and the only ratio ever written to its
\* modifier, or baked into it, is 0.2 in the first case and 0.5 in the second.
C3_ReduceRatio ==
  \A k \in 1..Len(objects) :
    (objects[k].type = "MESH" /\ ~Animated(objects[k]) /\ ~Preserved(objects[k])) =>
      /\ Classified(k) => LogAbout(ClassKinds, objects[k].name) # {}
      /\ \A n \in LogAbout(ClassKinds, objects[k].name) : log[n].kind = ExpectedKind(objects[k])
      /\ (k = i /\ pc \in {"set_active", "attach", "configure", "apply"}) =>
            target_ratio = ExpectedRatio(objects[k])
      /\ \A n \in 1..Len(objects[k].modifiers) :
            \/ objects[k].modifiers[n].ratio = ExpectedRatio(objects[k])
            \/ (pc = "configure" /\ k = i /\ objects[k].modifiers[n] = NewModifier)
      /\ \A n \in 1..Len(objects[k].baked) :
            objects[k].baked[n].ratio = ExpectedRatio(objects[k])

C3_Witness ==
  /\ pc = "done"
  /\ \E j, k \in 1..Len(objects) :
       /\ Crushed(objects[j]) /\ Len(objects[j].baked) = 1 /\ objects[j].baked[1].ratio = 2
       /\ ~Crushed(objects[k]) /\ Len(objects[k].baked) = 1 /\ objects[k].baked[1].ratio = 5

\* some request of the try block about object k raised
FailedOn(k) == \E n \in CallsOn(ObjectOps, k) : ~calls[n].ok

ExportRequested == \E n \in 1..Len(calls) : calls[n].op = "export_scene.fbx"

\* C4: a failure of the host inside the try block never leaves the function:
\* it is logged for its object, every later mesh object is still classified
\* and, when it is to be reduced and does not fail itself, reduced with its
\* own ratio, and a run that ends after such a failure has requested the export.
C4_FailureIsolated ==
  /\ pc = "raised" => calls[Len(calls)].op \in {"import_scene.fbx", "export_scene.fbx"}
  /\ \A k \in 1..Len(objects) :
       /\ FailedOn(k) => Cardinality(LogAbout({"ERROR"}, objects[k].name)) = 1
       /\ (FailedOn(k) /\ pc \in {"done", "raised"}) => ExportRequested
       /\ (pc \in {"export", "done"} \/ ExportRequested) =>
            /\ objects[k].type = "MESH" => Cardinality(LogAbout(ClassKinds, objects[k].name)) = 1
            /\ (objects[k].type = "MESH" /\ ~Animated(objects[k]) /\ ~Preserved(objects[k])
                  /\ ~FailedOn(k)) =>
                 /\ Len(objects[k].baked) = 1
                 /\ objects[k].baked[1].ratio = ExpectedRatio(objects[k])
                 /\ objects[k].modifiers = <<>>

C4_Witness ==
  /\ pc = "done"
  /\ \E j, k \in 1..Len(objects) :
       /\ j < k
       /\ FailedOn(j)
       /\ LogAbout({"ERROR"}, objects[j].name) # {}
       /\ ~FailedOn(k)
       /\ Len(objects[k].baked) = 1

\* the command line holds no separator, or its first separator is its last argument
NoPathAfterSeparator ==
  \/ \A n \in 1..Len(argv) : argv[n] # Sep
  \/ (argv[Len(argv)] = Sep /\ \A n \in 1..(Len(argv) - 1) : argv[n] # Sep)

\* C5: without a path after the separator the run prints the one error
\* message and returns: no request is ever made to the host, no object is
\* loaded, no output path is computed.
C5_NoInputReturns ==
  NoPathAfterSeparator =>
    /\ pc \in {"start", "returned"}
    /\ calls = <<>>
    /\ objects = <<>>
    /\ input_path = <<>>
    /\ output_path = <<>>
    /\ pc = "start" => log = <<>>
    /\ pc = "returned" => log = <<Msg("ERROR_NO_INPUT", <<>>)>>

C5_Witness ==
  /\ pc = "returned"
  /\ argv[Len(argv)] = Sep
  /\ log = <<Msg("ERROR_NO_INPUT", <<>>)>>

\* position of the last token c of p, 0 when there is none
LastPos(p, c) ==
  IF \E n \in 1..Len(p) : p[n] = c
  THEN CHOOSE n \in 1..Len(p) : p[n] = c /\ \A m \in (n + 1)..Len(p) : p[m] # c
  ELSE 0

\* p is directory "/" base "." extension: the directory is empty (the root) or
\* does not end in a slash, the base name has no slash and is not made of dots
\* only, the extension has neither slash nor dot and is not empty
HasDirBaseExt(p) ==
  LET s == LastPos(p, "/")
      t == LastPos(p, ".")
  IN /\ s >= 1
     /\ t > s + 1
     /\ t < Len(p)
     /\ \E n \in (s + 1)..(t - 1) : p[n] # "."
     /\ s > 1 => p[s - 1] # "/"

DirOf(p) == SubSeq(p, 1, LastPos(p, "/") - 1)

BaseOf(p) == SubSeq(p, LastPos(p, "/") + 1, LastPos(p, ".") - 1)

ExtOf(p) == SubSeq(p, LastPos(p, ".") + 1, Len(p))

\* C6 as stated: the export goes to {dir}/{base}_QUEST_SMART.{ext}, with the
\* extension of the input.
C6_SameExtension ==
  (output_path # <<>> /\ HasDirBaseExt(input_path)) =>
    output_path = DirOf(input_path) \o <<"/">> \o BaseOf(input_path)
                    \o <<"_QUEST_SMART", ".">> \o ExtOf(input_path)

\* C6 amended: the export goes to {dir}/{base}_QUEST_SMART.fbx, whatever the
\* extension of the input, and it is the path of the one export request and
\* of the COMPLETE message.
C6_FixedExtension ==
  /\ (output_path # <<>> /\ HasDirBaseExt(input_path)) =>
       output_path = DirOf(input_path) \o <<"/">> \o BaseOf(input_path)
                       \o <<"_QUEST_SMART", ".", "fbx">>
  /\ ExportRequested <=> output_path # <<>>
  /\ \A n \in 1..Len(log) : log[n].kind = "COMPLETE" => log[n].arg = output_path

C6_Witness ==
  /\ pc = "done"
  /\ input_path = <<"/", "scenes", "/", "avatar", ".", "obj">>
  /\ HasDirBaseExt(input_path)
  /\ output_path = <<"/", "scenes", "/", "avatar", "_QUEST_SMART", ".", "fbx">>

\* C7: an object that is not a mesh, whatever its name and shape keys, has no
\* modifier, is the subject of no host request, is never active, and no
\* per-object message names it.
C7_NonMeshIgnored ==
  \A k \in 1..Len(objects) :
    objects[k].type # "MESH" =>
      /\ Untouched(k)
      /\ LogAbout(ObjectKinds, objects[k].name) = {}

C7_Witness ==
  /\ pc = "done"
  /\ \E j, k \in 1..Len(objects) :
       /\ objects[k].type # "MESH" /\ Animated(objects[k]) /\ Crushed(objects[k])
       /\ objects[j].type = "MESH" /\ objects[j].baked # <<>>

\* C8: a mesh object has at most one classification message, exactly one once
\* the loop is past it, and is made active at most once; and from the import
\* on the scene holds the objects of the file, no more and no fewer.
C8_VisitedOnce ==
  /\ \A k \in 1..Len(objects) :
       objects[k].type = "MESH" =>
         /\ Cardinality(LogAbout(ClassKinds, objects[k].name)) <= 1
         /\ (Classified(k) \/ pc \in {"export", "done"} \/ ExportRequested) =>
               Cardinality(LogAbout(ClassKinds, objects[k].name)) = 1
         /\ Cardinality(CallsOn({"set_active"}, k)) <= 1
  /\ pc \in {"loop", "set_active", "attach", "configure", "apply", "export", "done"} =>
       /\ Len(objects) = Len(file.objs)
       /\ \A k \in 1..Len(objects) :
            /\ objects[k].name = file.objs[k].name
            /\ objects[k].type = file.objs[k].type
            /\ objects[k].shape_keys = file.objs[k].shape_keys

C8_Witness ==
  /\ pc = "done"
  /\ Len(objects) = 2
  /\ \A k \in 1..Len(objects) :
       /\ objects[k].type = "MESH"
       /\ Cardinality(LogAbout(ClassKinds, objects[k].name)) = 1
  /\ \E k \in 1..Len(objects) : FailedOn(k)

\* C9 as stated: a path that cannot be imported makes the run end cleanly,
\* nothing raised and nothing requested of the host.
C9_InvalidPathGraceful ==
  (~NoPathAfterSeparator /\ ~file.valid) => (pc # "raised" /\ calls = <<>>)

\* C9 amended: a path that cannot be imported is not detected at the start:
\* the scene is reset, the PROCESSING line is printed, the import is requested
\* and its failure leaves optimize_for_quest as an exception; the run prints
\* no error message, visits no object and requests no export.
C9_InvalidPathRaises ==
  (~NoPathAfterSeparator /\ ~file.valid) =>
    /\ pc \in {"start", "setup", "import", "raised"}
    /\ \A n \in 1..Len(log) : log[n].kind = "PROCESSING"
    /\ objects = <<>>
    /\ output_path = <<>>
    /\ pc = "raised" =>
         /\ calls = <<Call("read_factory_settings", 0, TRUE), Call("import_scene.fbx", 0, FALSE)>>
         /\ log = <<Msg("PROCESSING", input_path)>>

C9_Witness ==
  /\ pc = "raised"
  /\ ~file.valid
  /\ calls[Len(calls)] = Call("import_scene.fbx", 0, FALSE)

ConfiguredModifier(r) ==
  [name |-> "SmartDecimate", type |-> "DECIMATE", ratio |-> r,
   use_collapse_triangulate |-> TRUE, use_symmetry |-> FALSE, delimit |-> {"UV", "MATERIAL"}]

\* C10: an object gets at most one attach and then at most one commit; the
\* commit comes after a successful attach, with the ratio and the flags set;
\* after a failed request nothing more is requested for the object; and once
\* the loop is over an object whose commit succeeded has the configured
\* modifier baked and none left, while one whose attach succeeded and whose
\* commit failed still carries the configured modifier.
C10_AttachThenCommit ==
  \A k \in 1..Len(objects) :
    LET new == CallsOn({"modifiers.new"}, k)
        apply == CallsOn({"modifier_apply"}, k)
    IN /\ Cardinality(new) <= 1
       /\ Cardinality(apply) <= 1
       /\ \A a \in apply : \E n \in new : n < a /\ calls[n].ok
       /\ \A n \in CallsOn(ObjectOps, k) : ~calls[n].ok => \A m \in CallsOn(ObjectOps, k) : m <= n
       /\ (pc = "apply" /\ k = i) => objects[k].modifiers = <<ConfiguredModifier(ExpectedRatio(objects[k]))>>
       /\ (\E a \in apply : calls[a].ok) =>
            /\ objects[k].modifiers = <<>>
            /\ objects[k].baked = <<ConfiguredModifier(ExpectedRatio(objects[k]))>>
       /\ (\E a \in apply : ~calls[a].ok) =>
            /\ objects[k].modifiers = <<ConfiguredModifier(ExpectedRatio(objects[k]))>>
            /\ objects[k].baked = <<>>
       /\ (\A n \in new : ~calls[n].ok) => (objects[k].modifiers = <<>> /\ objects[k].baked = <<>>)

C10_Witness ==
  /\ pc = "done"
  /\ \E j, k \in 1..Len(objects) :
       /\ \E a \in CallsOn({"modifier_apply"}, j) : calls[a].ok
       /\ objects[j].modifiers = <<>>
       /\ \E a \in CallsOn({"modifier_apply"}, k) : ~calls[a].ok
       /\ Len(objects[k].modifiers) = 1
====
